---- MODULE Spec2Model ----
(***************************************************************************)
(* RTCP Source Description (SDES) codec, src/rtcp/source_description.rs.   *)
(*                                                                         *)
(* A packet is a sequence of chunks [ssrc, items]; an item is              *)
(* [item_type, data].  The codec writes to and reads from an Octets        *)
(* cursor: a byte buffer `buf` and an absolute offset `off`.               *)
(*                                                                         *)
(* Two scenarios are run.  "roundtrip": a caller builds a packet, encodes  *)
(* it with RtcpSourceDescriptionPacket::to_bytes into a buffer starting at *)
(* offset `start`, then rewinds the cursor to `start` and decodes with     *)
(* from_bytes, passing count = get_chunks_length().  "wire": a caller      *)
(* decodes `count` chunks from an arbitrary received buffer.               *)
(***************************************************************************)
EXTENDS Integers, Sequences, FiniteSets, TLC

VARIABLES
    scenario,   \* "roundtrip" or "wire"
    chunks,     \* RtcpSourceDescriptionPacket.chunks of the packet being encoded
    buf,        \* the Octets' byte buffer (byte at offset k is buf[k + 1])
    off,        \* the Octets' cursor, an absolute offset into buf
    start,      \* the offset at which the current top-level call began
    count,      \* the `count` argument of RtcpSourceDescriptionPacket::from_bytes
    pc,         \* position in the running call
    ci,         \* index of the next chunk of `for chunk in &self.chunks`
    cstart,     \* offset at which the running chunk from_bytes call began
    ssrc,       \* local `ssrc` of the running chunk from_bytes call
    items,      \* local `items` of the running chunk from_bytes call
    dchunks,    \* local `chunks` of the running packet from_bytes call
    spans,      \* <<first, end>> offsets of each chunk from_bytes call that returned Ok
    ret,        \* what the top-level call returned
    ev          \* the last chunk-level call that returned, and what it returned

vars == <<scenario, chunks, buf, off, start, count, pc, ci, cstart, ssrc, items,
          dchunks, spans, ret, ev>>

----------------------------------------------------------------------------
(* Bounds of the explored inputs.                                          *)

MaxChunks == 2      \* chunks per packet
MaxItems == 2       \* items per packet, over all its chunks
MaxDataLen == 2     \* bytes of data per item (short items)
MaxBuf == 11        \* bytes of a received buffer in the "wire" scenario
MaxCount == 2       \* `count` passed to from_bytes in the "wire" scenario

ItemTypes == {0, 1}
WireBytes == {0, 1}
StartOffsets == 0..3
\* Inputs at the edge of the one-byte fields: item data of these lengths and
\* packets of this many chunks.
LongDataLens == {255, 256, 257}
BigChunkCounts == {255, 256, 257}

\* 2^8: the width of `as u8` and of one byte
U8 == 256

----------------------------------------------------------------------------
(* The Octets cursor: bounds-checked big-endian reads and writes that      *)
(* advance the offset.  An operation that does not fit fails and leaves    *)
(* the cursor alone.                                                       *)

BufferTooShort == "BufferTooShort"
InvalidPaddingSize == "InvalidPaddingSize"
NoError == "none"

Octets(b, o) == [buf |-> b, off |-> o]

cap(o) == Len(o.buf) - o.off

\* F(v), with v evaluated once
With(v, F(_)) == CHOOSE y \in {F(x) : x \in {v}} : TRUE

Good(o, v) == [ok |-> TRUE, o |-> o, v |-> v, err |-> NoError]
Bad(o, e) == [ok |-> FALSE, o |-> o, v |-> <<>>, err |-> e]

\* n bytes of v, most significant first
be_bytes(v, n) == [i \in 1..n |-> (v \div (U8 ^ (n - i))) % U8]

RECURSIVE be_value(_)
be_value(bytes) ==
    IF bytes = <<>> THEN 0
    ELSE be_value(SubSeq(bytes, 1, Len(bytes) - 1)) * U8 + bytes[Len(bytes)]

put_bytes(o, v) ==
    IF cap(o) < Len(v) THEN Bad(o, BufferTooShort)
    ELSE Good(Octets(SubSeq(o.buf, 1, o.off) \o v
                        \o SubSeq(o.buf, o.off + Len(v) + 1, Len(o.buf)),
                     o.off + Len(v)), <<>>)

put_u8(o, v) == put_bytes(o, be_bytes(v, 1))
put_u16(o, v) == put_bytes(o, be_bytes(v, 2))
put_u24(o, v) == put_bytes(o, be_bytes(v, 3))
put_u32(o, v) == put_bytes(o, be_bytes(v, 4))

get_bytes(o, len) ==
    IF cap(o) < len THEN Bad(o, BufferTooShort)
    ELSE Good(Octets(o.buf, o.off + len), SubSeq(o.buf, o.off + 1, o.off + len))

get_u8(o) ==
    With(get_bytes(o, 1), LAMBDA r : IF r.ok THEN Good(r.o, be_value(r.v)) ELSE r)

get_u32(o) ==
    With(get_bytes(o, 4), LAMBDA r : IF r.ok THEN Good(r.o, be_value(r.v)) ELSE r)

----------------------------------------------------------------------------
(* source_description.rs                                                   *)

\* get_padding without its `len % 4 == 0` case
get_padding_unaligned_only(len) ==
    4 - (len % 4)

get_padding(len) ==
    IF len % 4 = 0 THEN 0 ELSE 4 - (len % 4)

RtcpSourceDescriptionItem(t, d) == [item_type |-> t, data |-> d]
RtcpSourceDescriptionChunk(s, its) == [ssrc |-> s, items |-> its]

RECURSIVE items_fold(_)
\* self.items.iter().fold(0, |sum, a| sum + 2 + a.data.len())
items_fold(its) ==
    IF its = <<>> THEN 0
    ELSE items_fold(SubSeq(its, 1, Len(its) - 1)) + 2 + Len(its[Len(its)].data)

\* get_length that forgets the END byte
Chunk_get_length_no_end(chunk) ==
    LET b1 == 4 + items_fold(chunk.items)
    IN  b1 + get_padding(b1)

\* RtcpSourceDescriptionChunk::get_length.  The `as u32` of its result is the
\* identity on every length explored here (all are below 2^31).
Chunk_get_length(chunk) ==
    LET b1 == 4 + items_fold(chunk.items) + 1
    IN  b1 + get_padding(b1)

\* an item written length first, type second
put_item_length_first(o, item) ==
    With(put_u8(o, Len(item.data) % U8), LAMBDA r1 :
    IF ~r1.ok THEN r1 ELSE
    With(put_u8(r1.o, item.item_type), LAMBDA r2 :
    IF ~r2.ok THEN r2 ELSE
    put_bytes(r2.o, item.data)))

\* one iteration of `for item in &self.items` of RtcpSourceDescriptionChunk::to_bytes
put_item(o, item) ==
    With(put_u8(o, item.item_type), LAMBDA r1 :
    IF ~r1.ok THEN r1 ELSE
    With(put_u8(r1.o, Len(item.data) % U8), LAMBDA r2 :
    IF ~r2.ok THEN r2 ELSE
    put_bytes(r2.o, item.data)))

RECURSIVE put_items(_, _)
put_items(o, its) ==
    IF its = <<>> THEN Good(o, <<>>)
    ELSE With(put_item(o, Head(its)), LAMBDA r :
         IF ~r.ok THEN r ELSE put_items(r.o, Tail(its)))

\* three bytes of padding written as a 16-bit zero
put_padding_u16_for_3(o, padding) ==
    CASE padding = 0 -> Good(o, <<>>)
      [] padding = 1 -> put_u8(o, 0)
      [] padding = 2 -> put_u16(o, 0)
      [] padding = 3 -> put_u16(o, 0)
      [] OTHER -> Bad(o, InvalidPaddingSize)

\* the `match padding` of RtcpSourceDescriptionChunk::to_bytes
put_padding(o, padding) ==
    CASE padding = 0 -> Good(o, <<>>)
      [] padding = 1 -> put_u8(o, 0)
      [] padding = 2 -> put_u16(o, 0)
      [] padding = 3 -> put_u24(o, 0)
      [] OTHER -> Bad(o, InvalidPaddingSize)

\* RtcpSourceDescriptionChunk::to_bytes; v is the padding it computed
Chunk_to_bytes(chunk, o) ==
    With(put_u32(o, chunk.ssrc), LAMBDA r1 :
    IF ~r1.ok THEN r1 ELSE
    With(put_items(r1.o, chunk.items), LAMBDA r2 :
    IF ~r2.ok THEN r2 ELSE
    With(put_u8(r2.o, 0), LAMBDA r3 :
    IF ~r3.ok THEN r3 ELSE
    With(get_padding(r3.o.off), LAMBDA padding :
    With(put_padding(r3.o, padding), LAMBDA r4 :
    [r4 EXCEPT !.v = <<r3.o.off, padding>>])))))

\* RtcpSourceDescriptionPacket::get_length: the fold's sum of the lengths of
\* chunks lo..hi, added up by halves
RECURSIVE fold_get_length(_, _, _)
fold_get_length(cs, lo, hi) ==
    IF lo > hi THEN 0
    ELSE IF lo = hi THEN Chunk_get_length(cs[lo])
    ELSE LET mid == (lo + hi) \div 2
         IN  fold_get_length(cs, lo, mid) + fold_get_length(cs, mid + 1, hi)

Packet_get_length(cs) == fold_get_length(cs, 1, Len(cs))

\* a chunk count that saturates instead of wrapping
get_chunks_length_saturating(cs) == IF Len(cs) >= U8 THEN U8 - 1 ELSE Len(cs)

\* RtcpSourceDescriptionPacket::get_chunks_length
get_chunks_length(cs) == Len(cs) % U8


\* lines 95-99 of RtcpSourceDescriptionChunk::from_bytes: the END check;
\* v is the padding it computed
end_check(o) ==
    With(get_padding(o.off), LAMBDA padding :
    With(IF padding > 0 THEN get_bytes(o, padding) ELSE Good(o, <<>>), LAMBDA r :
    [r EXCEPT !.v = <<o.off, padding>>]))

\* an item whose data is sliced out of the buffer without moving the cursor
read_item_data_not_consumed(o, item_type) ==
    With(get_u8(o), LAMBDA r1 :
    IF ~r1.ok THEN r1 ELSE
    With(get_bytes(r1.o, r1.v), LAMBDA r2 :
    IF ~r2.ok THEN r2
    ELSE Good(o, RtcpSourceDescriptionItem(item_type, r2.v))))

\* lines 102-105 of RtcpSourceDescriptionChunk::from_bytes: v is the item read
read_item(o, item_type) ==
    With(get_u8(o), LAMBDA r1 :
    IF ~r1.ok THEN r1 ELSE
    With(get_bytes(r1.o, r1.v), LAMBDA r2 :
    IF ~r2.ok THEN r2
    ELSE Good(r2.o, RtcpSourceDescriptionItem(item_type, r2.v))))

Iter(kind, r, its) ==
    [kind |-> kind, ok |-> kind # "err", o |-> r.o, items |-> its,
     err |-> r.err, v |-> r.v]

\* a loop that takes the end of the buffer for the END of the chunk
from_bytes_iter_eof_is_end(o, its) ==
    With(get_u8(o), LAMBDA r1 :
    IF ~r1.ok THEN Iter("break", Good(o, <<>>), its)
    ELSE IF r1.v = 0
    THEN With(end_check(r1.o), LAMBDA r2 :
         IF r2.ok THEN Iter("break", r2, its) ELSE Iter("err", r2, its))
    ELSE With(read_item(r1.o, r1.v), LAMBDA r3 :
         IF r3.ok THEN Iter("continue", r3, Append(its, r3.v))
         ELSE Iter("err", r3, its)))

\* one iteration of the `loop` of RtcpSourceDescriptionChunk::from_bytes:
\* "continue" (an item was pushed), "break" (END seen, padding removed) or
\* "err" (a `?` returned the cursor's error)
from_bytes_iter(o, its) ==
    With(get_u8(o), LAMBDA r1 :
    IF ~r1.ok THEN Iter("err", r1, its)
    ELSE IF r1.v = 0
    THEN With(end_check(r1.o), LAMBDA r2 :
         IF r2.ok THEN Iter("break", r2, its) ELSE Iter("err", r2, its))
    ELSE With(read_item(r1.o, r1.v), LAMBDA r3 :
         IF r3.ok THEN Iter("continue", r3, Append(its, r3.v))
         ELSE Iter("err", r3, its)))

\* `0..=count`
more_chunks_inclusive(n, c) == n <= c

\* `for _ in 0..count` of RtcpSourceDescriptionPacket::from_bytes: is there
\* another iteration after n chunks were pushed?
more_chunks(n, c) == n < c

----------------------------------------------------------------------------
(* What a call returned.                                                   *)

\* a chunk-level call: `chunk` holds the chunk encoded (to_bytes) or the chunk
\* returned (from_bytes; empty when it returned Err); `pad` is <<n, p>> when
\* the call computed p = get_padding(n)
ChunkCall(op, c, s, r) ==
    [op |-> op, chunk |-> c, start |-> s, end |-> r.o.off, ok |-> r.ok,
     err |-> r.err, pad |-> r.v]

NoCall == [op |-> "none", chunk |-> <<>>, start |-> 0, end |-> 0, ok |-> FALSE,
           err |-> NoError, pad |-> <<>>]

\* a packet-level call: `val` is the chunks of the packet returned by from_bytes
Returned(op, ok, err, val) == [op |-> op, ok |-> ok, err |-> err, val |-> val]

NotReturned == Returned("none", FALSE, NoError, <<>>)

\* a failure answered with the chunks decoded so far
chunk_failed_partial(e, cs) == Returned("from_bytes", TRUE, NoError, cs)

\* the `?` of `RtcpSourceDescriptionChunk::from_bytes(bytes)?` taken on Err(e),
\* with cs the chunks pushed so far: the function returns Err(e)
chunk_failed(e, cs) == Returned("from_bytes", FALSE, e, <<>>)

----------------------------------------------------------------------------
(* Inputs.                                                                 *)

DataOf(n) == [i \in 1..n |-> IF i % 2 = 1 THEN 97 ELSE 0]

Items == {RtcpSourceDescriptionItem(t, DataOf(n)) : t \in ItemTypes, n \in 0..MaxDataLen}

SeqsUpTo(S, n) == UNION {[1..k -> S] : k \in 0..n}

\* where the items of each of c chunks end in a flat sequence of n items
Cuts(c, n) ==
    {f \in [1..c -> 0..n] : f[c] = n /\ \A i \in 1..(c - 1) : f[i] <= f[i + 1]}

\* the ssrc given to chunk i of a packet: 0x12345678, 0x12345679, ...
SsrcOf(i) == 305419896 + i - 1

PacketOf(s, f) ==
    [i \in 1..Len(f) |->
        RtcpSourceDescriptionChunk(SsrcOf(i),
            SubSeq(s, (IF i = 1 THEN 0 ELSE f[i - 1]) + 1, f[i]))]

\* packets of at most MaxChunks chunks holding at most MaxItems items in all
SmallPackets ==
    {<<>>} \cup
    UNION {UNION {{PacketOf(s, f) : f \in Cuts(c, Len(s))} : c \in 1..MaxChunks}
            : s \in SeqsUpTo(Items, MaxItems)}

\* one chunk with one item of n bytes
LongPackets ==
    {<<RtcpSourceDescriptionChunk(SsrcOf(1),
          <<RtcpSourceDescriptionItem(1, [i \in 1..n |-> 97])>>)>>
        : n \in LongDataLens}

\* k chunks without items
BigPackets ==
    {[i \in 1..k |-> RtcpSourceDescriptionChunk(i, <<>>)] : k \in BigChunkCounts}

\* a caller sizes the output buffer from get_length(), or one byte short
Capacities(p, s) ==
    {c \in {s + Packet_get_length(p) - 1, s + Packet_get_length(p)} : c >= s}

InitCommon ==
    /\ ci = 1
    /\ cstart = 0
    /\ ssrc = 0
    /\ items = <<>>
    /\ dchunks = <<>>
    /\ spans = <<>>
    /\ ret = NotReturned
    /\ ev = NoCall

InitRoundtrip ==
    /\ scenario = "roundtrip"
    /\ pc = "to_bytes"
    /\ count = 0
    /\ \E p \in SmallPackets \cup LongPackets \cup BigPackets :
        /\ chunks = p
        /\ start \in (IF p \in SmallPackets THEN StartOffsets ELSE {0})
        /\ \E c \in (IF p \in SmallPackets THEN Capacities(p, start)
                     ELSE {Packet_get_length(p)}) :
            buf = [i \in 1..c |-> 255]
    /\ off = start
    /\ InitCommon

InitWire ==
    /\ scenario = "wire"
    /\ pc = "from_bytes"
    /\ chunks = <<>>
    /\ buf \in SeqsUpTo(WireBytes, MaxBuf)
    /\ start \in {s \in StartOffsets : s <= Len(buf)}
    /\ count \in 0..MaxCount
    /\ off = start
    /\ InitCommon

Init == InitRoundtrip \/ InitWire

----------------------------------------------------------------------------
(* Steps.                                                                  *)

\* RtcpSourceDescriptionPacket::to_bytes: one iteration of its loop, a whole
\* RtcpSourceDescriptionChunk::to_bytes call, or the final Ok(())
Packet_to_bytes ==
    /\ pc = "to_bytes"
    /\ IF ci <= Len(chunks)
       THEN \E r \in {Chunk_to_bytes(chunks[ci], Octets(buf, off))} :
            /\ buf' = r.o.buf
            /\ off' = r.o.off
            /\ ev' = ChunkCall("to_bytes", <<chunks[ci]>>, off, r)
            /\ IF r.ok
               THEN /\ ci' = ci + 1
                    /\ UNCHANGED <<pc, ret>>
               ELSE /\ pc' = "failed"
                    /\ ret' = Returned("to_bytes", FALSE, r.err, <<>>)
                    /\ UNCHANGED ci
       ELSE /\ pc' = "encoded"
            /\ ret' = Returned("to_bytes", TRUE, NoError, <<>>)
            /\ UNCHANGED <<buf, off, ev, ci>>
    /\ UNCHANGED <<scenario, chunks, start, count, cstart, ssrc, items, dchunks, spans>>

\* the caller of the round trip: rewind the cursor to where encoding began and
\* decode with count = packet.get_chunks_length()
Rewind ==
    /\ pc = "encoded"
    /\ pc' = "from_bytes"
    /\ off' = start
    /\ count' = get_chunks_length(chunks)
    /\ dchunks' = <<>>
    /\ spans' = <<>>
    /\ ret' = NotReturned
    /\ UNCHANGED <<scenario, chunks, buf, start, ci, cstart, ssrc, items, ev>>

\* RtcpSourceDescriptionPacket::from_bytes: the head of `for _ in 0..count`;
\* enters RtcpSourceDescriptionChunk::from_bytes (its get_u32) or returns Ok
Packet_from_bytes ==
    /\ pc = "from_bytes"
    /\ IF more_chunks(Len(dchunks), count)
       THEN \E r \in {get_u32(Octets(buf, off))} :
            IF r.ok
            THEN /\ ssrc' = r.v
                 /\ items' = <<>>
                 /\ cstart' = off
                 /\ off' = r.o.off
                 /\ pc' = "chunk_loop"
                 /\ UNCHANGED <<ret, ev>>
            ELSE /\ ev' = ChunkCall("from_bytes", <<>>, off, r)
                 /\ ret' = chunk_failed(r.err, dchunks)
                 /\ pc' = "done"
                 /\ cstart' = off
                 /\ UNCHANGED <<ssrc, items, off>>
       ELSE /\ ret' = Returned("from_bytes", TRUE, NoError, dchunks)
            /\ pc' = "done"
            /\ UNCHANGED <<ssrc, items, cstart, off, ev>>
    /\ UNCHANGED <<scenario, chunks, buf, start, count, ci, dchunks, spans>>

\* RtcpSourceDescriptionChunk::from_bytes: one iteration of its `loop`
Chunk_from_bytes ==
    /\ pc = "chunk_loop"
    /\ \E r \in {from_bytes_iter(Octets(buf, off), items)} :
        /\ off' = r.o.off
        /\ items' = r.items
        /\ CASE r.kind = "continue" ->
                    UNCHANGED <<pc, ev, dchunks, spans, ret>>
             [] r.kind = "break" ->
                    /\ ev' = ChunkCall("from_bytes",
                                <<RtcpSourceDescriptionChunk(ssrc, r.items)>>, cstart, r)
                    /\ dchunks' = Append(dchunks, RtcpSourceDescriptionChunk(ssrc, r.items))
                    /\ spans' = Append(spans, <<cstart, r.o.off>>)
                    /\ pc' = "from_bytes"
                    /\ UNCHANGED ret
             [] OTHER ->
                    /\ ev' = ChunkCall("from_bytes", <<>>, cstart, r)
                    /\ ret' = chunk_failed(r.err, dchunks)
                    /\ pc' = "done"
                    /\ UNCHANGED <<dchunks, spans>>
    /\ UNCHANGED <<scenario, chunks, buf, start, count, ci, cstart, ssrc>>

Next == Packet_to_bytes \/ Rewind \/ Packet_from_bytes \/ Chunk_from_bytes

Spec == Init /\ [][Next]_vars

\* every call runs to its return: the code is straight-line, single-threaded
LiveSpec == Spec /\ WF_vars(Next)

----------------------------------------------------------------------------
(* The wire format of RFC 3550 6.5, written down independently of the      *)
(* codec, to state the properties against.                                 *)

RoundUp4(n) == ((n + 3) \div 4) * 4

RECURSIVE ItemsWire(_)
ItemsWire(its) ==
    IF its = <<>> THEN <<>>
    ELSE <<Head(its).item_type, Len(Head(its).data)>> \o Head(its).data
            \o ItemsWire(Tail(its))

SsrcWire(s) ==
    <<s \div 16777216, (s \div 65536) % 256, (s \div 256) % 256, s % 256>>

\* chunk c lies in b from offset s to offset e: ssrc, items, END, zero padding
Lays(b, s, c, e) ==
    LET w == SsrcWire(c.ssrc) \o ItemsWire(c.items) \o <<0>>
    IN  /\ e = RoundUp4(s + Len(w))
        /\ e <= Len(b)
        /\ SubSeq(b, s + 1, s + Len(w)) = w
        /\ \A j \in 1..Len(c.items) :
              c.items[j].item_type # 0 /\ Len(c.items[j].data) <= 255

\* what a reader of the item list starting at offset p meets first: the END
\* tag, the end of the buffer, or an item longer than what is left
RECURSIVE Scan(_, _)
Scan(b, p) ==
    IF p >= Len(b) THEN "exhausted"
    ELSE IF b[p + 1] = 0 THEN "end"
    ELSE IF p + 1 >= Len(b) THEN "exhausted"
    ELSE IF p + 2 + b[p + 2] > Len(b) THEN "short_item"
    ELSE Scan(b, p + 2 + b[p + 2])

\* no END tag can be reached by a chunk read at offset s
Unterminated(b, s) ==
    s + 4 > Len(b) \/ Scan(b, s + 4) \in {"exhausted", "short_item"}

ShortData(p) ==
    \A i \in 1..Len(p) : \A j \in 1..Len(p[i].items) : Len(p[i].items[j].data) <= 255

NonZeroTypes(p) ==
    \A i \in 1..Len(p) : \A j \in 1..Len(p[i].items) : p[i].items[j].item_type # 0

\* offset of the type tag of item j of a chunk written at offset s
ItemOffset(c, s, j) == s + 4 + Len(ItemsWire(SubSeq(c.items, 1, j - 1)))

Encoded == ev.op = "to_bytes" /\ ev.ok
Decoded == ev.op = "from_bytes" /\ ev.ok
DecodeFailed == ev.op = "from_bytes" /\ ~ev.ok
RoundTripDone == scenario = "roundtrip" /\ pc = "done"

----------------------------------------------------------------------------
(* C1 *)

\* C1, as claimed: a packet whose items all have data of at most 255 bytes
\* decodes, with count = get_chunks_length(), to a packet equal to itself.
C1_RoundTrip_AnyTypes ==
    RoundTripDone /\ ShortData(chunks) => ret.ok /\ ret.val = chunks

\* C1, amended: a packet of at most 255 chunks whose items all have a nonzero
\* item_type and data of at most 255 bytes, encoded at some offset and decoded
\* from the same buffer at that offset with count = get_chunks_length(),
\* decodes to a packet equal to itself.
C1_RoundTrip ==
    RoundTripDone /\ ShortData(chunks) /\ NonZeroTypes(chunks) /\ Len(chunks) <= 255
        => ret.ok /\ ret.val = chunks

C1_Witness ==
    /\ RoundTripDone /\ ret.ok /\ ret.val = chunks
    /\ Len(chunks) = 2 /\ NonZeroTypes(chunks)
    /\ Len(chunks[1].items) = 1 /\ Len(chunks[1].items[1].data) = 2
    /\ Len(chunks[2].items) = 1
    /\ start = 1

----------------------------------------------------------------------------
(* C2 *)

\* C2, as claimed: from every cursor state from which it succeeds, chunk
\* to_bytes advances the cursor by get_length() bytes, a multiple of 4.
C2_Length_AnyOffset ==
    Encoded =>
        /\ ev.end - ev.start = Chunk_get_length(ev.chunk[1])
        /\ Chunk_get_length(ev.chunk[1]) % 4 = 0

\* C2, amended: from every cursor state at an offset that is a multiple of 4
\* from which it succeeds, chunk to_bytes advances the cursor by get_length()
\* bytes; get_length() is a multiple of 4 for every chunk.
C2_Length ==
    /\ Encoded /\ ev.start % 4 = 0 =>
          ev.end - ev.start = Chunk_get_length(ev.chunk[1])
    /\ ev.op = "to_bytes" => Chunk_get_length(ev.chunk[1]) % 4 = 0
    /\ \A i \in 1..Len(chunks) : Chunk_get_length(chunks[i]) % 4 = 0

C2_Witness ==
    /\ Encoded /\ ev.start = 8
    /\ Len(ev.chunk[1].items) = 1 /\ Len(ev.chunk[1].items[1].data) = 2
    /\ ev.end = 20

----------------------------------------------------------------------------
(* C3 *)

\* C3: in every chunk that to_bytes encoded, each item's length byte equals the
\* length of its data and is followed by the data.
C3_NoTruncation ==
    Encoded =>
        \A j \in 1..Len(ev.chunk[1].items) :
            LET item == ev.chunk[1].items[j]
                p == ItemOffset(ev.chunk[1], ev.start, j)
            IN  /\ buf[p + 1] = item.item_type
                /\ buf[p + 2] = Len(item.data)
                /\ SubSeq(buf, p + 3, p + 2 + Len(item.data)) = item.data

----------------------------------------------------------------------------
(* C4 *)

\* C4: a chunk from_bytes call that meets the end of the buffer before an END
\* tag, or an item longer than what is left, returns the bounds error and no
\* chunk; and so does the packet from_bytes that made the call.
C4_NoPartialChunk ==
    /\ ev.op = "from_bytes" /\ Unterminated(buf, ev.start) =>
          /\ ~ev.ok /\ ev.err = BufferTooShort /\ ev.chunk = <<>>
          /\ pc = "done" /\ ~ret.ok /\ ret.val = <<>>
    /\ Decoded => Scan(buf, ev.start + 4) = "end"

C4_Witness ==
    /\ DecodeFailed /\ pc = "done"
    /\ Scan(buf, ev.start + 4) = "short_item"
    /\ Len(items) >= 1

----------------------------------------------------------------------------
(* C5 *)

\* C5: packet from_bytes returns the failed chunk call's error and no packet,
\* whatever chunks it had decoded, and returns a packet only when all `count`
\* chunk calls returned Ok.
C5_AllOrNothing ==
    pc = "done" =>
        /\ DecodeFailed =>
              ~ret.ok /\ ret.err = ev.err /\ ret.err = BufferTooShort /\ ret.val = <<>>
        /\ ret.ok => Len(dchunks) = count /\ ret.val = dchunks /\ (count > 0 => Decoded)
        /\ ~ret.ok => DecodeFailed /\ Len(dchunks) < count

C5_Witness ==
    pc = "done" /\ ~ret.ok /\ Len(dchunks) >= 1 /\ count = 2 /\ ret.val = <<>>

----------------------------------------------------------------------------
(* C6 *)

\* C6: the chunks from_bytes has decoded lie one after the other in the buffer,
\* from the offset the call began at; on success there are `count` of them and
\* the cursor is at the end of the last one, whatever follows in the buffer
\* (with count = 0: no chunk, and the cursor has not moved).
C6_ExactlyCount ==
    /\ Len(spans) = Len(dchunks)
    /\ \A i \in 1..Len(dchunks) :
          /\ spans[i][1] = (IF i = 1 THEN start ELSE spans[i - 1][2])
          /\ Lays(buf, spans[i][1], dchunks[i], spans[i][2])
    /\ Len(dchunks) <= count
    /\ pc = "done" /\ ret.ok =>
          /\ Len(ret.val) = count
          /\ ret.val = dchunks
          /\ off = (IF count = 0 THEN start ELSE spans[count][2])

C6_Witness ==
    /\ pc = "done" /\ ret.ok /\ scenario = "wire"
    /\ count = 1 /\ Len(ret.val) = 1 /\ Len(ret.val[1].items) = 1
    /\ off < Len(buf)

----------------------------------------------------------------------------
(* C7 *)

\* C7: the count the round trip passes on, get_chunks_length(), is the number
\* of chunks modulo 256: the number itself up to 255 chunks, and a smaller
\* number, not an error, from 256 chunks on.
C7_ChunkCountMod256 ==
    scenario = "roundtrip" /\ pc \in {"from_bytes", "chunk_loop", "done"} =>
        /\ count \in 0..255
        /\ \E q \in 0..(Len(chunks) \div 256) : Len(chunks) = 256 * q + count
        /\ Len(chunks) <= 255 => count = Len(chunks)
        /\ Len(chunks) >= 256 => count < Len(chunks)

C7_Witness ==
    RoundTripDone /\ Len(chunks) = 257 /\ count = 1 /\ ret.ok /\ Len(ret.val) = 1

----------------------------------------------------------------------------
(* C8 *)

\* C8: whenever a chunk call computed p = get_padding(n), p = (4 - n mod 4)
\* mod 4, p is in 0..3 and n + p is the least multiple of 4 from n on; the
\* same holds of get_padding at every offset of the buffer; no call returns
\* InvalidPaddingSize.
C8_Padding ==
    /\ \A n \in 0..(Len(buf) + 4) :
          /\ get_padding(n) = (4 - (n % 4)) % 4
          /\ n + get_padding(n) = RoundUp4(n)
    /\ ev.pad # <<>> =>
          LET n == ev.pad[1]
              p == ev.pad[2]
          IN  /\ p = (4 - (n % 4)) % 4
              /\ p \in 0..3
              /\ (n + p) % 4 = 0
              /\ \A m \in n..(n + p - 1) : m % 4 # 0
    /\ ev.err # InvalidPaddingSize
    /\ ret.err # InvalidPaddingSize

C8_Witness ==
    Encoded /\ ev.pad # <<>> /\ ev.pad[1] % 4 = 0 /\ ev.pad[2] = 0

----------------------------------------------------------------------------
(* C9 *)

\* C9: every chunk to_bytes and from_bytes call that returns Ok leaves the
\* cursor at a multiple of 4, wherever it began; and in a packet encoded or
\* decoded from a multiple of 4 every chunk begins at a multiple of 4.
C9_AbsoluteAlignment ==
    /\ Encoded \/ Decoded => ev.end % 4 = 0
    /\ start % 4 = 0 /\ ev.op # "none" => ev.start % 4 = 0
    /\ start % 4 = 0 /\ pc = "chunk_loop" => cstart % 4 = 0
    /\ \A i \in 1..Len(spans) : spans[i][2] % 4 = 0 /\ (i > 1 => spans[i][1] % 4 = 0)

C9_Witness ==
    Encoded /\ ev.start % 4 = 3 /\ ev.pad # <<>> /\ ev.pad[2] = 3 /\ ev.end % 4 = 0

----------------------------------------------------------------------------
(* C10 *)

ZeroAfterSsrc(b, s) == \A k \in (s + 5)..Len(b) : b[k] = 0

\* C10, as claimed (its last part): a chunk from_bytes call on a buffer whose
\* bytes after the ssrc are all zero returns a chunk without items.
C10_AllZero_Decodes ==
    ev.op = "from_bytes" /\ ev.start + 4 < Len(buf) /\ ZeroAfterSsrc(buf, ev.start)
        => ev.ok /\ ev.chunk[1].items = <<>>

\* C10, amended: the item loop of chunk from_bytes always ends, by returning a
\* chunk after reading a zero type tag or by returning the bounds error; every
\* iteration that does not end it advances the cursor by at least 2 bytes; and
\* a buffer whose bytes after the ssrc are all zero, and reach the multiple of
\* 4 that follows the first of them, decodes to a chunk without items.
C10_Terminates ==
    /\ (pc = "chunk_loop") ~> (pc # "chunk_loop")
    /\ [][pc = "chunk_loop" /\ pc' = "chunk_loop" =>
            off' >= off + 2 /\ off' <= Len(buf)]_vars
    /\ [][pc = "chunk_loop" /\ pc' # "chunk_loop" =>
            \/ Decoded' /\ buf[(ev').pad[1]] = 0
            \/ DecodeFailed' /\ (ev').err = BufferTooShort]_vars
    /\ [](ev.op = "from_bytes" /\ ev.start + 4 < Len(buf)
            /\ ZeroAfterSsrc(buf, ev.start) /\ RoundUp4(ev.start + 5) <= Len(buf)
          => ev.ok /\ ev.chunk[1].items = <<>>)

C10_Witness ==
    /\ Decoded /\ scenario = "wire" /\ ev.start = 1
    /\ Len(ev.chunk[1].items) = 1
    /\ ev.end < Len(buf)

====
